---- MODULE Spec2Model ----
(***************************************************************************)
(* golem_messages/cryptography.py: the concatenation KDF (eciesKDF), the   *)
(* ECIES envelope (ECCx.ecies_encrypt / ECCx.ecies_decrypt), recoverable   *)
(* ECDSA (ecdsa_sign / ecdsa_verify, ECCx.sign / ECCx.verify) and key-pair *)
(* construction (ECCx.__init__ / ECCx.has_valid_keys).                     *)
(*                                                                         *)
(* Byte strings are sequences of byte terms.  A byte is a literal          *)
(* <<"b", n>>, the i-th byte of a digest <<"h", i, D>>, a keystream byte   *)
(* <<"ks", i, key, iv>> or an exclusive-or <<"xor", a, k>>.  SHA-256,      *)
(* SHA3-256, Keccak-256 and HMAC-SHA256 are ideal: two digests are equal   *)
(* exactly when algorithm and inputs are equal.  Field widths (1, 4, 16,   *)
(* 32, 64, 65, 113) are those of the code.  The curve is the secp256k1     *)
(* equation y^2 = x^3 + 7 over a 4-bit prime field, whose points form a    *)
(* group of prime order, so that point validation, negation and scalar     *)
(* multiplication are computed and not assumed.                            *)
(***************************************************************************)
EXTENDS Integers, Sequences, FiniteSets, TLC

VARIABLES
    kdf_pc,        \* eciesKDF: "idle", "loop" (at the while test), "done"
    key_material,  \* eciesKDF: argument key_material
    key_len,       \* eciesKDF: argument key_len
    counter,       \* eciesKDF: local counter
    key,           \* eciesKDF: local key (the digests appended so far)
    kdf_result,    \* eciesKDF: the returned bytes key[:key_len]
    ecies_pc,      \* ECIES: "idle", "sent" (encrypt returned), "received", "done"
    plaintext,     \* ecies_encrypt: argument data
    recipient,     \* the recipient's private scalar (its ECCx decrypts)
    enc_mac,       \* shared_mac_data, the same bytes on both sides
    ephem,         \* ecies_encrypt: the scalar of ephem = cls(None)
    iv,            \* ecies_encrypt: the IV drawn by Cipher.gen_IV
    data,          \* the msg ecies_encrypt returned, then what reaches
                   \* ecies_decrypt as its argument data
    change,        \* what the network did to the msg: [kind, pos]
    result,        \* ecies_decrypt: what it returned or raised, and the
                   \* primitives it invoked, in order
    sig_pc,        \* signatures: "idle", "signed", "presented", "done"
    signer,        \* sign: the private scalar of the signing ECCx
    message,       \* sign and verify: argument inputb
    signature,     \* what sign returned, then what reaches verify as sig
    sig_change,    \* what happened to the signature on the way: [kind, pos]
    pubkey,        \* verify: the raw public key the signature is checked for
    verdict,       \* verify: what it returned or raised
    keys_pc,       \* ECCx.__init__: "idle", "loop" (at super().__init__),
                   \* "test" (at line 169), "done"
    supplied,      \* ECCx.__init__: raw_privkey is not None
    raw_privkey,   \* ECCx.__init__: argument raw_privkey (<<>> for None)
    self_privkey,  \* self.privkey
    pubkey_x,      \* self.pubkey_x
    pubkey_y,      \* self.pubkey_y
    attempts,      \* calls of super().__init__ made (counted up to MaxAttempts)
    outcome        \* ECCx.__init__: "ok", or the error raised

kdf_vars == <<kdf_pc, key_material, key_len, counter, key, kdf_result>>

ecies_vars == <<ecies_pc, plaintext, recipient, enc_mac, ephem, iv, data,
                change, result>>

sig_vars == <<sig_pc, signer, message, signature, sig_change, pubkey, verdict>>

keys_vars == <<keys_pc, supplied, raw_privkey, self_privkey, pubkey_x, pubkey_y,
               attempts, outcome>>

vars == <<kdf_vars, ecies_vars, sig_vars, keys_vars>>

(***************************************************************************)
(* Bounds of the model.                                                    *)
(***************************************************************************)
MaxKeyLen == 64

MaxScalar == 2

MaxPlainLen == 1

MaxIv == 1

MaxTamperByte == 8

MaxSuppliedScalar == 7

MaxAttempts == 3

(***************************************************************************)
(* Python values.                                                          *)
(***************************************************************************)
Min(a, b) == IF a < b THEN a ELSE b

Max(a, b) == IF a > b THEN a ELSE b

Lit(n) == <<"b", n>>

IsLit(b) == b[1] = "b"

Zeros(n) == [i \in 1..n |-> Lit(0)]

\* Python's clamping of a slice index i for a sequence of n items.
PyIndex(i, n) == IF i < 0 THEN Max(n + i, 0) ELSE Min(i, n)

\* Python's s[a:b] (0-based, negative indices count from the end).
PySlice(s, a, b) ==
    LET lo == PyIndex(a, Len(s))
        hi == PyIndex(b, Len(s))
    IN  IF lo >= hi THEN <<>> ELSE SubSeq(s, lo + 1, hi)

\* Python's s[a:].
PySliceFrom(s, a) == PySlice(s, a, Len(s))

\* Python's s[:b].
PySliceTo(s, b) == PySlice(s, 0, b)

\* struct.pack('>I', n): four bytes, big-endian.
PackBE32(n) ==
    << Lit((n \div 16777216) % 256), Lit((n \div 65536) % 256),
       Lit((n \div 256) % 256), Lit(n % 256) >>

(***************************************************************************)
(* Digests.  A digest's input is named by an injective code of the byte    *)
(* string: bytes a..b of one digest D are coded <<"slice", a, b, D>>, any  *)
(* other string is coded by its bytes.                                     *)
(***************************************************************************)
DigestLen == 32

IsDigestRun(s) ==
    /\ Len(s) > 0
    /\ \A i \in 1..Len(s) :
          /\ s[i][1] = "h"
          /\ s[i][2] = s[1][2] + i - 1
          /\ s[i][3] = s[1][3]

Code(s) ==
    IF IsDigestRun(s) THEN <<"slice", s[1][2], s[Len(s)][2], s[1][3]>>
    ELSE <<"raw", s>>

DigestBytes(D) == [i \in 1..DigestLen |-> <<"h", i, D>>]

\* hashlib.sha256(): update(a); update(b); ...; digest() hashes a + b + ...
sha256(s) == DigestBytes(<<"sha256", Code(s)>>)

(***************************************************************************)
(* eciesKDF(key_material, key_len)                                         *)
(***************************************************************************)
hash_blocksize == 64

\* The while test "counter <= reps", reps = ((key_len + 7) * 8) /
\* (hash_blocksize * 8) being Python 3's true division: compared exactly,
\* by cross-multiplication.
KdfLoopTestLt(c, n) == c * (hash_blocksize * 8) < (n + 7) * 8

KdfLoopTest(c, n) == c * (hash_blocksize * 8) <= (n + 7) * 8

\* One pass of the loop body: the digest appended for the new counter value
\* (s1 is the empty string).
KdfBlock(km, c) == sha256(PackBE32(c) \o km \o <<>>)

RECURSIVE KdfLoop(_, _, _, _)
KdfLoop(km, n, c, k) ==
    IF KdfLoopTest(c, n) THEN KdfLoop(km, n, c + 1, k \o KdfBlock(km, c + 1))
    ELSE k

eciesKDF(km, n) == PySliceTo(KdfLoop(km, n, 0, <<>>), n)

\* The key materials the KDF is run on: 32-byte strings.
KeyMaterials == { Zeros(31) \o <<Lit(x)>> : x \in {7, 8} }

KdfInit ==
    /\ kdf_pc = "idle"
    /\ key_material = <<>>
    /\ key_len = 0
    /\ counter = 0
    /\ key = <<>>
    /\ kdf_result = <<>>

\* Entry: s1 = b"", key = b"", counter = 0.
KdfCall ==
    /\ kdf_pc \in {"idle", "done"}
    /\ \E km \in KeyMaterials, n \in 0..MaxKeyLen :
          /\ key_material' = km
          /\ key_len' = n
    /\ counter' = 0
    /\ key' = <<>>
    /\ kdf_result' = <<>>
    /\ kdf_pc' = "loop"

\* The loop body.
KdfIterate ==
    /\ kdf_pc = "loop"
    /\ KdfLoopTest(counter, key_len)
    /\ counter' = counter + 1
    /\ key' = key \o KdfBlock(key_material, counter + 1)
    /\ UNCHANGED <<kdf_pc, key_material, key_len, kdf_result>>

\* return key[:key_len]
KdfReturn ==
    /\ kdf_pc = "loop"
    /\ ~KdfLoopTest(counter, key_len)
    /\ kdf_result' = PySliceTo(key, key_len)
    /\ kdf_pc' = "done"
    /\ UNCHANGED <<key_material, key_len, counter, key>>

NextKDF == KdfCall \/ KdfIterate \/ KdfReturn

(***************************************************************************)
(* Claims on eciesKDF.                                                     *)
(***************************************************************************)

\* C4 (as claimed): eciesKDF returns exactly key_len bytes, for every
\* key_len >= 0.
C4_ReturnsKeyLenBytes ==
    kdf_pc = "done" => Len(kdf_result) = key_len

\* ceil(a / b) for a >= 0, b > 0.
CeilDiv(a, b) == (a + b - 1) \div b

\* C5 (as claimed): the number of SHA-256 iterations is
\* ceil((key_len*8 + 56) / 512).
C5_IterationsAreCeil ==
    kdf_pc = "done" => counter = CeilDiv(key_len * 8 + 56, hash_blocksize * 8)

\* C5 (amended): the number of SHA-256 iterations is
\* floor((key_len + 7) / 64) + 1, the count of the loop
\* "while counter <= ((key_len+7)*8)/(64*8)" started at counter 0; the
\* counters hashed are 1, 2, ..., and the result is the operator's.
C5_IterationsAreFloorPlusOne ==
    kdf_pc = "done" =>
        /\ counter = ((key_len + 7) \div hash_blocksize) + 1
        /\ Len(key) = DigestLen * counter
        /\ \A c \in 1..counter :
              SubSeq(key, DigestLen * (c - 1) + 1, DigestLen * c)
                  = sha256(PackBE32(c) \o key_material)
        /\ kdf_result = eciesKDF(key_material, key_len)

\* C5 witness: a length for which the two counts differ has been run.
C5_Witness ==
    kdf_pc = "done" /\ key_len = 57 /\ counter = 2

(***************************************************************************)
(* The curve: y^2 = x^3 + CurveB over the field of FieldP elements.  Its   *)
(* GroupN - 1 affine points and the point at infinity (coded <<0, 0>>,     *)
(* which is off the curve) form a group of prime order GroupN.             *)
(***************************************************************************)
FieldP == 13

CurveB == 7

GroupN == 7

Inf == <<0, 0>>

G == <<7, 5>>

ModInv(a, m) == CHOOSE b \in 1..(m - 1) : (a * b) % m = 1

OnCurve(x, y) ==
    /\ x < FieldP
    /\ y < FieldP
    /\ (y * y) % FieldP = (x * x * x + CurveB) % FieldP

Neg(P) == IF P = Inf THEN Inf ELSE <<P[1], (FieldP - P[2]) % FieldP>>

PointAdd(P, Q) ==
    IF P = Inf THEN Q
    ELSE IF Q = Inf THEN P
    ELSE IF Q = Neg(P) THEN Inf
    ELSE LET lam == IF P = Q
                    THEN (3 * P[1] * P[1] * ModInv((2 * P[2]) % FieldP, FieldP)) % FieldP
                    ELSE ((Q[2] + FieldP - P[2])
                            * ModInv((Q[1] + FieldP - P[1]) % FieldP, FieldP)) % FieldP
             x3  == (lam * lam + 2 * FieldP - P[1] - Q[1]) % FieldP
             y3  == (lam * (P[1] + FieldP - x3) + FieldP - P[2]) % FieldP
         IN  <<x3, y3>>

RECURSIVE ScalarMult(_, _)
\* k * P by repeated addition; the partial sum (k - 1) * P is bound to Q and
\* so computed once.
ScalarMult(k, P) ==
    IF k = 0 THEN Inf
    ELSE CHOOSE R \in { PointAdd(P, Q) : Q \in {ScalarMult(k - 1, P)} } : TRUE

\* BN_bin2bn: the big-endian value of a byte string of any length.  Every
\* value of 256 or more is off the field, so the value saturates at 256.
BN_bin2bn(s) ==
    IF Len(s) = 0 THEN 0
    ELSE IF \E i \in 1..(Len(s) - 1) : s[i] # Lit(0) THEN 256
    ELSE IF IsLit(s[Len(s)]) THEN s[Len(s)][2]
    ELSE 256

\* A field element or scalar as 32 bytes, big-endian.
Bytes32(n) == Zeros(31) \o <<Lit(n)>>

\* privtopub(raw_privkey) of a valid 32-byte scalar: X || Y, 64 bytes.
RawPubkey(d) ==
    LET Q == ScalarMult(d, G) IN Bytes32(Q[1]) \o Bytes32(Q[2])

\* pyelliptic.ECC.raw_get_ecdh_key(pubkey_x, pubkey_y) of the key pair with
\* scalar d: the peer's coordinates are decoded and the point is checked
\* (EC_POINT_set_affine_coordinates_GFp, EC_KEY_check_key), which raises
\* for a point off the curve; the agreed secret is the x coordinate of
\* d * peer, 32 bytes.
raw_get_ecdh_key(d, peer_x, peer_y) ==
    LET x == BN_bin2bn(peer_x)
        y == BN_bin2bn(peer_y)
    IN  IF OnCurve(x, y)
        THEN [ok |-> TRUE, val |-> Bytes32(ScalarMult(d, <<x, y>>)[1])]
        ELSE [ok |-> FALSE, val |-> <<>>]

\* pyelliptic.hmac_sha256(k, m) = hmac.new(k, m, hashlib.sha256).digest()
hmac_sha256(k, m) == DigestBytes(<<"hmac", Code(k), Code(m)>>)

\* AES-128-CTR keystream byte i under (key, iv).
Keystream(i, k, v) == <<"ks", i, Code(k), Code(v)>>

\* a xor k, with (b xor k) xor k = b.
Xor(a, k) == IF a[1] = "xor" /\ a[3] = k THEN a[2] ELSE <<"xor", a, k>>

\* pyelliptic.Cipher(key, iv, direction, 'aes-128-ctr').ciphering(input): in
\* counter mode both directions are the same transform.
ciphering(k, v, input) ==
    [i \in 1..Len(input) |-> Xor(input[i], Keystream(i, k, v))]

(***************************************************************************)
(* ECCx.ecies_encrypt(data, raw_pubkey, shared_mac_data), with the scalar  *)
(* r of ephem = cls(None) and the IV v it draws.                           *)
(***************************************************************************)
ecies_encrypt_overhead_length == 113

\* The bytes the tag authenticates, line 262: msg[1 + 64:] + shared_mac_data.
EncMacInputWithR(msg, shared) == PySliceFrom(msg, 1) \o shared

EncMacInput(msg, shared) == PySliceFrom(msg, 1 + 64) \o shared

ecies_encrypt(input, raw_pubkey, shared, r, v) ==
    LET km      == raw_get_ecdh_key(r, PySliceTo(raw_pubkey, 32),
                                       PySliceFrom(raw_pubkey, 32)).val
        k       == eciesKDF(km, 32)
        key_enc == PySliceTo(k, 16)
        key_mac == sha256(PySliceFrom(k, 16))
        ct      == ciphering(key_enc, v, input)
        msg     == <<Lit(4)>> \o RawPubkey(r) \o v \o ct
        tag     == hmac_sha256(key_mac, EncMacInput(msg, shared))
    IN  msg \o tag

(***************************************************************************)
(* ECCx.ecies_decrypt(data, shared_mac_data) of the key pair with scalar   *)
(* d.  The outcome is what is returned or raised (kind, msg, value) and    *)
(* the primitives invoked up to there (calls).                             *)
(***************************************************************************)
Raised(kind, msg, calls) ==
    [kind |-> kind, msg |-> msg, value |-> <<>>, calls |-> calls]

Returned(value, calls) ==
    [kind |-> "ok", msg |-> "", value |-> value, calls |-> calls]

\* Line 284: the header test.
HeaderOkAny(input) == TRUE

HeaderOk(input) == PySliceTo(input, 1) = <<Lit(4)>>

\* Line 307: the bytes whose MAC is compared with the tag.
DecMacInputWithR(input, shared) == PySlice(input, 1, -32) \o shared

DecMacInput(input, shared) == PySlice(input, 1 + 64, -32) \o shared

\* Line 309: pyelliptic.equals, a constant-time comparison of two strings.
TagOkAlways(a, b) == TRUE

TagOk(a, b) == a = b

\* The kind of the error raised at line 285.
HeaderErrorKindOther == "FormatError"

HeaderErrorKind == "DecryptionError"

\* The kind of the error raised at line 310.
TagErrorKind == "DecryptionError"

ecies_decrypt(d, input, shared) ==
    IF ~HeaderOk(input)
    THEN Raised(HeaderErrorKind, "wrong ecies header", <<>>)
    ELSE
    LET _shared == PySlice(input, 1, 1 + 64)
        ecdh    == raw_get_ecdh_key(d, PySliceTo(_shared, 32),
                                       PySliceFrom(_shared, 32))
        k       == eciesKDF(ecdh.val, 32)
        key_enc == PySliceTo(k, 16)
        key_mac == sha256(PySliceFrom(k, 16))
        tag     == PySliceFrom(input, -32)
        hmaced  == hmac_sha256(key_mac, DecMacInput(input, shared))
        blocksize == 16
        v       == PySlice(input, 1 + 64, 1 + 64 + blocksize)
        ct      == PySlice(input, 1 + 64 + blocksize, -32)
        c1      == <<"ecdh">>
        c2      == c1 \o <<"sha256">>
        c3      == c2 \o <<"sha256">>
        c4      == c3 \o <<"hmac_sha256">>
        c5      == c4 \o <<"aes-128-ctr">>
    IN  IF ~ecdh.ok THEN Raised("Exception", "provider", c1)
        ELSE IF Len(ecdh.val) # 32 THEN Raised("AssertionError", "", c1)
        ELSE IF Len(k) # 32 THEN Raised("AssertionError", "", c2)
        ELSE IF Len(key_mac) # 32 THEN Raised("AssertionError", "", c3)
        ELSE IF Len(tag) # 32 THEN Raised("AssertionError", "", c3)
        ELSE IF ~TagOk(hmaced, tag)
             THEN Raised(TagErrorKind, "Fail to verify data", c4)
        ELSE IF Len(v) # 16 THEN Raised("AssertionError", "", c4)
        ELSE IF 1 + Len(_shared) + Len(v) + Len(ct) + Len(tag) # Len(input)
             THEN Raised("AssertionError", "", c4)
        ELSE Returned(ciphering(key_enc, v, ct), c5)


(***************************************************************************)
(* ECIES: one message from ecies_encrypt, through the network, to the      *)
(* recipient's ecies_decrypt.                                              *)
(***************************************************************************)
\* Private scalars of valid key pairs (0 < d < GroupN).
Scalars == 1..MaxScalar

PlainBytes == {Lit(1)}

RECURSIVE StringsUpTo(_, _)
StringsUpTo(S, n) ==
    IF n = 0 THEN {<<>>}
    ELSE LET shorter == StringsUpTo(S, n - 1)
         IN  shorter \cup { Append(s, b) : s \in shorter, b \in S }

Plaintexts == StringsUpTo(PlainBytes, MaxPlainLen)

SharedMacs == {<<>>, <<Lit(1)>>}

IVs == { Zeros(15) \o <<Lit(v)>> : v \in 1..MaxIv }

NoChange == [kind |-> "none", pos |-> 0]

NoResult == [kind |-> "none", msg |-> "", value |-> <<>>, calls |-> <<>>]

EciesInit ==
    /\ ecies_pc = "idle"
    /\ plaintext = <<>>
    /\ recipient = 1
    /\ enc_mac = <<>>
    /\ ephem = 1
    /\ iv = <<>>
    /\ data = <<>>
    /\ change = NoChange
    /\ result = NoResult

\* ecies_encrypt(data, raw_pubkey, shared_mac_data) returns msg.
Encrypt ==
    /\ ecies_pc = "idle"
    /\ \E p \in Plaintexts, d \in Scalars, m \in SharedMacs,
          r \in Scalars, v \in IVs :
          /\ plaintext' = p
          /\ recipient' = d
          /\ enc_mac' = m
          /\ ephem' = r
          /\ iv' = v
          /\ data' = ecies_encrypt(p, RawPubkey(d), m, r, v)
    /\ ecies_pc' = "sent"
    /\ UNCHANGED <<change, result>>

\* The msg arrives as it was sent.
Deliver ==
    /\ ecies_pc = "sent"
    /\ ecies_pc' = "received"
    /\ UNCHANGED <<plaintext, recipient, enc_mac, ephem, iv, data, change,
                   result>>

\* The msg arrives with one position changed.
Tamper ==
    /\ ecies_pc = "sent"
    /\ \E pos \in 1..Len(data), b \in 0..MaxTamperByte :
          /\ Lit(b) # data[pos]
          /\ data' = [data EXCEPT ![pos] = Lit(b)]
          /\ change' = [kind |-> "tamper", pos |-> pos]
    /\ ecies_pc' = "received"
    /\ UNCHANGED <<plaintext, recipient, enc_mac, ephem, iv, result>>

\* Only the first n < 113 bytes of the msg arrive, under the sent leading
\* byte or another one.
Truncate ==
    /\ ecies_pc = "sent"
    /\ \E n \in 0..(ecies_encrypt_overhead_length - 1), h \in {Lit(4), Lit(0)} :
          /\ data' = [i \in 1..n |-> IF i = 1 THEN h ELSE data[i]]
          /\ change' = [kind |-> "truncate", pos |-> n]
    /\ ecies_pc' = "received"
    /\ UNCHANGED <<plaintext, recipient, enc_mac, ephem, iv, result>>

\* What arrives is 0x04 || R || tag with no IV and no ciphertext (97
\* bytes), the tag being the MAC of shared_mac_data alone under the key
\* agreed between the ephemeral and the recipient's key.
ForgeShort ==
    /\ ecies_pc = "sent"
    /\ LET km      == raw_get_ecdh_key(ephem, PySliceTo(RawPubkey(recipient), 32),
                                       PySliceFrom(RawPubkey(recipient), 32)).val
           key_mac == sha256(PySliceFrom(eciesKDF(km, 32), 16))
       IN  data' = <<Lit(4)>> \o RawPubkey(ephem) \o hmac_sha256(key_mac, enc_mac)
    /\ change' = [kind |-> "forge", pos |-> 0]
    /\ ecies_pc' = "received"
    /\ UNCHANGED <<plaintext, recipient, enc_mac, ephem, iv, result>>

\* The recipient's ECCx runs ecies_decrypt(data, shared_mac_data).
Decrypt ==
    /\ ecies_pc = "received"
    /\ result' = ecies_decrypt(recipient, data, enc_mac)
    /\ ecies_pc' = "done"
    /\ UNCHANGED <<plaintext, recipient, enc_mac, ephem, iv, data, change>>

NextECIES == Encrypt \/ Deliver \/ Tamper \/ Truncate \/ ForgeShort \/ Decrypt

AuthenticationError(r) ==
    r.kind = "DecryptionError" /\ r.msg = "Fail to verify data"

FormatError(r) ==
    r.kind = "DecryptionError" /\ r.msg = "wrong ecies header"

\* The fields of a msg of n bytes, by position (1-based).
InPubkeyField(pos) == pos \in 2..65

InIvField(pos) == pos \in 66..81

InCiphertextField(pos, n) == pos \in 82..(n - 32)

InTagField(pos, n) == pos \in (n - 31)..n

\* The point the ephemeral-public-key field of data decodes to.
ReceivedPoint ==
    <<BN_bin2bn(PySlice(data, 1, 33)), BN_bin2bn(PySlice(data, 33, 65))>>

\* C2 (as claimed): a msg with one position of the ephemeral-public-key
\* field, the IV, the ciphertext or the tag changed makes ecies_decrypt fail
\* with the authentication error.
C2_TamperAlwaysAuthError ==
    (ecies_pc = "done" /\ change.kind = "tamper" /\ change.pos >= 2) =>
        AuthenticationError(result)

\* C2 (amended): a change of one position of the IV, the ciphertext or the
\* tag makes ecies_decrypt fail with the authentication error.  A change of
\* one position of the ephemeral-public-key field, which the tag does not
\* cover, makes it raise the curve provider's error when the changed point
\* is off the curve, fail with the authentication error when the point is on
\* the curve and agrees on another secret, and return the plaintext that was
\* sent when the point is the negation of the one sent (same secret).  An
\* altered plaintext is never returned.
C2_TamperDetected ==
    (ecies_pc = "done" /\ change.kind = "tamper" /\ change.pos >= 2) =>
        /\ ~InPubkeyField(change.pos) => AuthenticationError(result)
        /\ InPubkeyField(change.pos) =>
              IF ~OnCurve(ReceivedPoint[1], ReceivedPoint[2])
              THEN result.kind = "Exception" /\ result.calls = <<"ecdh">>
              ELSE IF ReceivedPoint = Neg(ScalarMult(ephem, G))
              THEN result.kind = "ok"
              ELSE AuthenticationError(result)
        /\ result.kind = "ok" => result.value = plaintext
        /\ result.kind # "ok" => result.value = <<>>

\* C2 witness: a changed ciphertext byte has been rejected.
C2_Witness ==
    /\ ecies_pc = "done" /\ change.kind = "tamper"
    /\ InCiphertextField(change.pos, Len(data))
    /\ AuthenticationError(result)

\* Reached: a changed ephemeral key that still decrypts (the negated point).
NegatedPointAccepted ==
    /\ ecies_pc = "done" /\ change.kind = "tamper"
    /\ InPubkeyField(change.pos) /\ result.kind = "ok"

\* C3 (as claimed): ecies_decrypt of fewer than 113 bytes fails with the
\* format error before any cryptographic primitive is invoked.
C3_ShortInputRejectedFirst ==
    (ecies_pc = "done" /\ Len(data) < ecies_encrypt_overhead_length) =>
        FormatError(result) /\ result.calls = <<>>

\* Reached: a short input on which an assert statement fails after the MAC
\* was verified.
ShortInputAssertion ==
    /\ ecies_pc = "done" /\ Len(data) < ecies_encrypt_overhead_length
    /\ result.kind = "AssertionError"

\* The MAC key the recipient derives from the msg in data.
RecipientMacKey ==
    LET km == raw_get_ecdh_key(recipient, PySlice(data, 1, 33),
                               PySlice(data, 33, 65)).val
    IN  sha256(PySliceFrom(eciesKDF(km, 32), 16))

\* C9 (as claimed): the tag ecies_encrypt appends is the HMAC, under K_mac,
\* of R(64) || IV(16) || C || shared_mac_data.
C9_TagCoversPubkey ==
    ecies_pc = "sent" =>
        PySliceFrom(data, -32)
            = hmac_sha256(RecipientMacKey, PySlice(data, 1, -32) \o enc_mac)

\* C9 (amended): the tag ecies_encrypt appends is the HMAC, under K_mac, of
\* IV(16) || C || shared_mac_data: neither the leading 0x04 nor the
\* ephemeral public key R is part of the MAC input.
C9_TagCoversIvAndCiphertext ==
    ecies_pc = "sent" =>
        /\ PySliceTo(data, 1) = <<Lit(4)>>
        /\ PySlice(data, 1, 65) = RawPubkey(ephem)
        /\ PySlice(data, 65, 81) = iv
        /\ PySliceFrom(data, -32)
              = hmac_sha256(RecipientMacKey,
                            iv \o PySlice(data, 81, -32) \o enc_mac)

\* C9 witness: a msg with ciphertext and shared_mac_data has been produced.
C9_Witness ==
    ecies_pc = "sent" /\ plaintext # <<>> /\ enc_mac # <<>>


(***************************************************************************)
(* Recoverable ECDSA, as coincurve (libsecp256k1) computes it.             *)
(***************************************************************************)
\* sha3(seed): _sha3_256(seed).digest()
sha3(seed) == DigestBytes(<<"sha3_256", Code(seed)>>)

RECURSIVE WeightedSum(_, _)
WeightedSum(s, i) ==
    IF i > Len(s) THEN 0
    ELSE i * ((IF IsLit(s[i]) THEN s[i][2] ELSE 256) + 1) + WeightedSum(s, i + 1)

\* The scalar a 32-byte message hash stands for: its value modulo the group
\* order.  The value of an ideal digest is a fixed function of its algorithm
\* and input.
DigestScalar(h) ==
    LET D    == h[1][3]
        salt == IF D[1] = "sha3_256" THEN 1 ELSE 2
        body == IF D[2][1] = "raw" THEN WeightedSum(D[2][2], 1) ELSE 3
    IN  (salt + body) % GroupN

\* secp256k1_ecdsa_sign_recoverable: the nonce is a function of (d, z) and of
\* the attempt a (RFC 6979); an attempt with r = 0 or s = 0 is retried; s is
\* normalised to the lower half, which flips the parity bit of the
\* recovery id; bit 1 of the recovery id says that R.x exceeded the order.
RECURSIVE SignAttempt(_, _, _)
SignAttempt(d, z, a) ==
    LET k  == 1 + ((d + 2 * z + a) % (GroupN - 1))
        R  == ScalarMult(k, G)
        r  == R[1] % GroupN
        s0 == (ModInv(k, GroupN) * (z + r * d)) % GroupN
        id == (IF R[1] >= GroupN THEN 2 ELSE 0) + (R[2] % 2)
        hi == 2 * s0 > GroupN
        s1 == IF hi THEN GroupN - s0 ELSE s0
        v  == IF ~hi THEN id ELSE IF id % 2 = 0 THEN id + 1 ELSE id - 1
    IN  IF r = 0 \/ s0 = 0 THEN SignAttempt(d, z, a + 1)
        ELSE Bytes32(r) \o Bytes32(s1) \o <<Lit(v)>>

\* coincurve.PrivateKey(privkey).sign_recoverable(msghash, hasher=None)
sign_recoverable(d, h) == SignAttempt(d, DigestScalar(h), 0)

\* coincurve.PublicKey.from_signature_and_message(signature, message,
\* hasher=None).format(compressed=False): the signature is parsed (65 bytes,
\* recovery id 0..3, r and s below the order), R is rebuilt from r and the
\* recovery id, and the key is r^-1 (s R - z G); any failure raises.
recover(sig, h) ==
    LET r  == BN_bin2bn(PySlice(sig, 0, 32))
        s  == BN_bin2bn(PySlice(sig, 32, 64))
        v  == IF IsLit(sig[65]) THEN sig[65][2] ELSE 256
        z  == DigestScalar(h)
        x  == r + (IF v >= 2 THEN GroupN ELSE 0)
        ys == { y \in 0..(FieldP - 1) : OnCurve(x, y) /\ y % 2 = v % 2 }
        R  == <<x, CHOOSE y \in ys : TRUE>>
        Q  == ScalarMult(ModInv(r, GroupN),
                         PointAdd(ScalarMult(s, R),
                                  ScalarMult((GroupN - z) % GroupN, G)))
        failed == [ok |-> FALSE, val |-> <<>>]
    IN  IF Len(sig) # 65 THEN failed
        ELSE IF v > 3 \/ r >= GroupN \/ s >= GroupN THEN failed
        ELSE IF r = 0 \/ s = 0 THEN failed
        ELSE IF x >= FieldP \/ ys = {} THEN failed
        ELSE IF Q = Inf THEN failed
        ELSE [ok |-> TRUE, val |-> <<Lit(4)>> \o Bytes32(Q[1]) \o Bytes32(Q[2])]

(***************************************************************************)
(* ecdsa_sign, ecdsa_verify, ECCx.sign, ECCx.verify                        *)
(***************************************************************************)
Verdict(kind, msg) == [kind |-> kind, msg |-> msg]

\* ecdsa_sign(privkey, msghash)
ecdsa_sign(d, msghash) == sign_recoverable(d, sha3(msghash))

\* ECCx.sign(inputb) of the key pair with scalar d
sign(d, inputb) == ecdsa_sign(d, inputb)

\* Line 142: pk.format(compressed=False) == b'\04' + pubkey
RecoveredIsPubkeyUntagged(pk, claimed) == pk = claimed

RecoveredIsPubkeyAlways(pk, claimed) == TRUE

RecoveredIsPubkey(pk, claimed) == pk = <<Lit(4)>> \o claimed

\* The kinds of the errors raised at lines 143 and 330.
MismatchErrorKind == "InvalidSignature"

LengthErrorKind == "InvalidSignature"

\* ecdsa_verify(pubkey, signature, message)
ecdsa_verify(claimed, sig, msg) ==
    IF Len(claimed) # 64 THEN Verdict("InvalidKeys", "Invalid pubkey length")
    ELSE LET pk == recover(sig, sha3(msg))
         IN  IF ~pk.ok THEN Verdict("CoincurveError", "")
             ELSE IF ~RecoveredIsPubkey(pk.val, claimed)
                  THEN Verdict(MismatchErrorKind, "")
             ELSE Verdict("ok", "")

\* ECCx.verify(sig, inputb) of an ECCx whose raw_pubkey is claimed
verify(claimed, sig, inputb) ==
    IF Len(sig) # 65 THEN Verdict(LengthErrorKind, "Invalid length")
    ELSE ecdsa_verify(claimed, sig, inputb)

Messages == StringsUpTo(PlainBytes, MaxPlainLen)

SigInit ==
    /\ sig_pc = "idle"
    /\ signer = 1
    /\ message = <<>>
    /\ signature = <<>>
    /\ sig_change = NoChange
    /\ pubkey = <<>>
    /\ verdict = Verdict("none", "")

\* ECCx.sign(inputb) returns signature.
Sign ==
    /\ sig_pc = "idle"
    /\ \E d \in Scalars, m \in Messages :
          /\ signer' = d
          /\ message' = m
          /\ signature' = sign(d, m)
    /\ sig_pc' = "signed"
    /\ UNCHANGED <<sig_change, pubkey, verdict>>

\* The signature is presented as it was made.
Present ==
    /\ sig_pc = "signed"
    /\ sig_pc' = "presented"
    /\ UNCHANGED <<signer, message, signature, sig_change, pubkey, verdict>>

\* The signature is presented with one byte changed.
SigTamper ==
    /\ sig_pc = "signed"
    /\ \E pos \in 1..Len(signature), b \in 0..MaxTamperByte :
          /\ Lit(b) # signature[pos]
          /\ signature' = [signature EXCEPT ![pos] = Lit(b)]
          /\ sig_change' = [kind |-> "tamper", pos |-> pos]
    /\ sig_pc' = "presented"
    /\ UNCHANGED <<signer, message, pubkey, verdict>>

\* The signature is presented one byte short or one byte long.
SigResize ==
    /\ sig_pc = "signed"
    /\ \E sig \in {PySliceTo(signature, 64), signature \o <<Lit(0)>>} :
          /\ signature' = sig
          /\ sig_change' = [kind |-> "resize", pos |-> Len(sig)]
    /\ sig_pc' = "presented"
    /\ UNCHANGED <<signer, message, pubkey, verdict>>

\* An ECCx of a valid key pair runs verify(sig, inputb).
Verify ==
    /\ sig_pc = "presented"
    /\ \E d \in Scalars :
          /\ pubkey' = RawPubkey(d)
          /\ verdict' = verify(RawPubkey(d), signature, message)
    /\ sig_pc' = "done"
    /\ UNCHANGED <<signer, message, signature, sig_change>>

\* ecdsa_verify(pubkey, signature, message) is called with a key that is
\* one byte short.
VerifyShortKey ==
    /\ sig_pc = "presented"
    /\ \E d \in Scalars :
          /\ pubkey' = PySliceTo(RawPubkey(d), 63)
          /\ verdict' = ecdsa_verify(PySliceTo(RawPubkey(d), 63), signature, message)
    /\ sig_pc' = "done"
    /\ UNCHANGED <<signer, message, signature, sig_change>>

NextSig == Sign \/ Present \/ SigTamper \/ SigResize \/ Verify \/ VerifyShortKey

(***************************************************************************)
(* Key pairs: verify_pubkey, privtopub, ECCx.has_valid_keys, ECCx.__init__ *)
(***************************************************************************)
\* verify_pubkey(key) does not raise.
verify_pubkey(k) == Len(k) = 64

\* privtopub(raw_privkey): bitcoin.privtopub reads a key of 32 bytes, or of
\* 33 bytes (its first 32), and raises for another length here and for a
\* scalar that is not below the order; the point of scalar 0 is (0, 0).
privtopub(priv) ==
    LET d == BN_bin2bn(PySliceTo(priv, 32))
        Q == ScalarMult(d, G)
    IN  IF Len(priv) \notin {32, 33} \/ d >= GroupN
        THEN [ok |-> FALSE, val |-> <<>>]
        ELSE [ok |-> TRUE, val |-> Bytes32(Q[1]) \o Bytes32(Q[2])]

\* pyelliptic.ECC.raw_check_key(privkey, pubkey_x, pubkey_y) returns 0: the
\* point is on the curve and, when a private key is given, it is in range
\* and its point is the public one (EC_KEY_check_key).  Otherwise it raises.
raw_check_key_pubkey_only(has_priv, priv, x, y) ==
    OnCurve(BN_bin2bn(x), BN_bin2bn(y))

raw_check_key(has_priv, priv, x, y) ==
    /\ OnCurve(BN_bin2bn(x), BN_bin2bn(y))
    /\ has_priv =>
          /\ BN_bin2bn(priv) \in 1..(GroupN - 1)
          /\ ScalarMult(BN_bin2bn(priv), G) = <<BN_bin2bn(x), BN_bin2bn(y)>>

\* ECCx.has_valid_keys(): every exception becomes False.
has_valid_keys(priv, x, y) ==
    /\ Len(priv) \in {32, 33}
    /\ verify_pubkey(x \o y)
    /\ raw_check_key(TRUE, priv, x, y)

\* Line 169: self.raw_privkey and len(self.raw_privkey) != 32
NeedsRetryOrShortPubkey(priv, x, y) ==
    priv # <<>> /\ (Len(priv) # 32 \/ Len(x \o y) # 64)

NeedsRetry(priv, x, y) == priv # <<>> /\ Len(priv) # 32

\* BN_bn2bin: the shortest big-endian encoding; of a 256-bit value it has
\* 32 bytes, or 31 when the leading byte is zero.  n stands for the value,
\* len for the length of its encoding.
BN_bn2bin(n, len) == Zeros(len - 1) \o <<Lit(n)>>

EncodedLengths == {31, 32}

\* The raw_privkey arguments: scalars in and out of range, in 31, 32 and 33
\* bytes.
SuppliedKeys ==
    { Zeros(k) \o <<Lit(v)>> : k \in {30, 31, 32}, v \in 0..MaxSuppliedScalar }
        \cup { Bytes32(v) \o <<Lit(1)>> : v \in 0..MaxSuppliedScalar }

KeysInit ==
    /\ keys_pc = "idle"
    /\ supplied = FALSE
    /\ raw_privkey = <<>>
    /\ self_privkey = <<>>
    /\ pubkey_x = <<>>
    /\ pubkey_y = <<>>
    /\ attempts = 0
    /\ outcome = "none"

\* Lines 158-161: ECCx(raw_privkey) with a key; privtopub may raise.
EnterWithKey ==
    /\ keys_pc \in {"idle", "done"}
    /\ \E k \in SuppliedKeys :
          /\ raw_privkey' = k
          /\ IF privtopub(k).ok /\ verify_pubkey(privtopub(k).val)
             THEN /\ pubkey_x' = PySliceTo(privtopub(k).val, 32)
                  /\ pubkey_y' = PySliceFrom(privtopub(k).val, 32)
                  /\ keys_pc' = "loop"
                  /\ outcome' = "none"
             ELSE /\ pubkey_x' = <<>>
                  /\ pubkey_y' = <<>>
                  /\ keys_pc' = "done"
                  /\ outcome' = "Exception"
    /\ supplied' = TRUE
    /\ self_privkey' = <<>>
    /\ attempts' = 0

\* Lines 162-163: ECCx(None).
EnterWithNone ==
    /\ keys_pc \in {"idle", "done"}
    /\ supplied' = FALSE
    /\ raw_privkey' = <<>>
    /\ self_privkey' = <<>>
    /\ pubkey_x' = <<>>
    /\ pubkey_y' = <<>>
    /\ attempts' = 0
    /\ outcome' = "none"
    /\ keys_pc' = "loop"

\* Lines 165-166 with a key: pyelliptic.ECC.__init__ sets the keys after
\* raw_check_key, which raises for a pair that does not match.
SetKeys ==
    /\ keys_pc = "loop"
    /\ supplied
    /\ attempts' = Min(attempts + 1, MaxAttempts)
    /\ IF raw_check_key(TRUE, raw_privkey, pubkey_x, pubkey_y)
       THEN /\ self_privkey' = raw_privkey
            /\ keys_pc' = "test"
            /\ outcome' = "none"
       ELSE /\ self_privkey' = <<>>
            /\ keys_pc' = "done"
            /\ outcome' = "Exception"
    /\ UNCHANGED <<supplied, raw_privkey, pubkey_x, pubkey_y>>

\* Lines 165-166 without a key: pyelliptic.ECC.__init__ generates a pair
\* whose scalar is encoded in 32 bytes; a coordinate may be encoded shorter.
GenerateFull ==
    /\ keys_pc = "loop"
    /\ ~supplied
    /\ attempts' = Min(attempts + 1, MaxAttempts)
    /\ \E d \in Scalars, lx \in EncodedLengths, ly \in EncodedLengths :
          /\ self_privkey' = BN_bn2bin(d, 32)
          /\ pubkey_x' = BN_bn2bin(ScalarMult(d, G)[1], lx)
          /\ pubkey_y' = BN_bn2bin(ScalarMult(d, G)[2], ly)
    /\ keys_pc' = "test"
    /\ UNCHANGED <<supplied, raw_privkey, outcome>>

\* Lines 165-166 without a key: the generated scalar is encoded in 31 bytes
\* (lines 167-168).
GenerateShort ==
    /\ keys_pc = "loop"
    /\ ~supplied
    /\ attempts' = Min(attempts + 1, MaxAttempts)
    /\ \E d \in Scalars, lx \in EncodedLengths, ly \in EncodedLengths :
          /\ self_privkey' = BN_bn2bin(d, 31)
          /\ pubkey_x' = BN_bn2bin(ScalarMult(d, G)[1], lx)
          /\ pubkey_y' = BN_bn2bin(ScalarMult(d, G)[2], ly)
    /\ keys_pc' = "test"
    /\ UNCHANGED <<supplied, raw_privkey, outcome>>

\* Lines 169-170: continue.
Retry ==
    /\ keys_pc = "test"
    /\ NeedsRetry(self_privkey, pubkey_x, pubkey_y)
    /\ keys_pc' = "loop"
    /\ UNCHANGED <<supplied, raw_privkey, self_privkey, pubkey_x, pubkey_y,
                   attempts, outcome>>

\* Lines 171-173: raise CryptoError, or break.
CheckKeys ==
    /\ keys_pc = "test"
    /\ ~NeedsRetry(self_privkey, pubkey_x, pubkey_y)
    /\ outcome' = IF has_valid_keys(self_privkey, pubkey_x, pubkey_y)
                  THEN "ok" ELSE "CryptoError"
    /\ keys_pc' = "done"
    /\ UNCHANGED <<supplied, raw_privkey, self_privkey, pubkey_x, pubkey_y,
                   attempts>>

NextKeys ==
    \/ EnterWithKey \/ EnterWithNone \/ SetKeys \/ GenerateFull
    \/ GenerateShort \/ Retry \/ CheckKeys

(***************************************************************************)
(* Specifications: one component is exercised in a behaviour.              *)
(***************************************************************************)
InitAll == KdfInit /\ EciesInit /\ SigInit /\ KeysInit

KdfStep == NextKDF /\ UNCHANGED <<ecies_vars, sig_vars, keys_vars>>

EciesStep == NextECIES /\ UNCHANGED <<kdf_vars, sig_vars, keys_vars>>

SigStep == NextSig /\ UNCHANGED <<kdf_vars, ecies_vars, keys_vars>>

KeysStep == NextKeys /\ UNCHANGED <<kdf_vars, ecies_vars, sig_vars>>

SpecKDF == InitAll /\ [][KdfStep]_vars

SpecECIES == InitAll /\ [][EciesStep]_vars

SpecSig == InitAll /\ [][SigStep]_vars

\* The random source yields a scalar encoded in 32 bytes again and again
\* (strong fairness of GenerateFull); every enabled step is taken.
SpecKeys ==
    /\ InitAll
    /\ [][KeysStep]_vars
    /\ WF_vars(KeysStep)
    /\ SF_vars(GenerateFull /\ UNCHANGED <<kdf_vars, ecies_vars, sig_vars>>)

\* ecies_decrypt and verify, each from its idle state.
Next ==
    \/ sig_pc = "idle" /\ EciesStep
    \/ ecies_pc = "idle" /\ SigStep

Spec == InitAll /\ [][Next]_vars

\* C6: a signature made by sign is 65 bytes, and verify of the signer's own
\* public key, the signature and the signed message returns True.
C6_SignatureRoundTrip ==
    /\ sig_pc = "signed" => Len(signature) = 65
    /\ (sig_pc = "done" /\ sig_change.kind = "none"
            /\ pubkey = RawPubkey(signer)) =>
          verdict.kind = "ok"

\* C6 witness: a signature over a non-empty message has been verified by
\* its signer's key.
C6_Witness ==
    /\ sig_pc = "done" /\ sig_change.kind = "none"
    /\ pubkey = RawPubkey(signer) /\ message # <<>> /\ verdict.kind = "ok"

\* C7: verify of a signature made with another key pair's scalar never
\* returns True: it raises the signature-mismatch error of line 143, not the
\* recovery error and not the key error.
C7_ForgeryRejected ==
    (sig_pc = "done" /\ sig_change.kind = "none"
        /\ Len(pubkey) = 64 /\ pubkey # RawPubkey(signer)) =>
        verdict = Verdict("InvalidSignature", "")

\* C7 witness: a signature has been checked against another key pair's
\* public key and rejected.
C7_Witness ==
    /\ sig_pc = "done" /\ sig_change.kind = "none"
    /\ Len(pubkey) = 64 /\ pubkey # RawPubkey(signer)
    /\ verdict.kind = "InvalidSignature"


\* The msg in data has the leading byte and a point ecdhAgree accepts, and
\* its last 32 bytes are not the MAC of data[1 + 64:-32] + shared_mac_data.
TagMismatch ==
    /\ HeaderOk(data)
    /\ OnCurve(ReceivedPoint[1], ReceivedPoint[2])
    /\ PySliceFrom(data, -32)
          # hmac_sha256(RecipientMacKey, PySlice(data, 65, -32) \o enc_mac)

\* The key recovered from the presented signature is not the claimed one.
KeyMismatch ==
    /\ Len(pubkey) = 64
    /\ Len(signature) = 65
    /\ recover(signature, sha3(message)).ok
    /\ recover(signature, sha3(message)).val # <<Lit(4)>> \o pubkey

\* C8 (as claimed): a malformed-format failure and an authentication or
\* mismatch failure are never reported with the same kind: the kind raised
\* for a MAC tag mismatch is not the kind raised for the same msg under a
\* wrong leading byte, and the kind raised for a recovered key that differs
\* from the claimed one is not the kind raised for the same signature cut to
\* 64 bytes.
C8_KindsDiffer ==
    /\ (ecies_pc = "done" /\ TagMismatch) =>
          result.kind
            # ecies_decrypt(recipient, <<Lit(0)>> \o PySliceFrom(data, 1),
                            enc_mac).kind
    /\ (sig_pc = "done" /\ KeyMismatch) =>
          verdict.kind
            # verify(pubkey, PySliceTo(signature, 64), message).kind

\* C8 (amended): each failure condition is identified by the kind together
\* with the message, not by the kind alone.  In ecies_decrypt a wrong
\* leading byte raises DecryptionError("wrong ecies header") before any
\* primitive is invoked and a MAC tag mismatch raises
\* DecryptionError("Fail to verify data"); in verify a signature whose
\* length is not 65 raises InvalidSignature("Invalid length") and a
\* recovered key that differs from the claimed one raises InvalidSignature
\* with no message.
C8_KindAndMessagePerCondition ==
    /\ (ecies_pc = "done" /\ ~HeaderOk(data)) =>
          /\ result.kind = "DecryptionError"
          /\ result.msg = "wrong ecies header"
          /\ result.calls = <<>>
    /\ (ecies_pc = "done" /\ TagMismatch) =>
          /\ result.kind = "DecryptionError"
          /\ result.msg = "Fail to verify data"
    /\ (sig_pc = "done" /\ Len(pubkey) = 64 /\ Len(signature) # 65) =>
          verdict = Verdict("InvalidSignature", "Invalid length")
    /\ (sig_pc = "done" /\ KeyMismatch) =>
          verdict = Verdict("InvalidSignature", "")

\* C8 witness: a msg with a changed tag byte has been refused.
C8_Witness ==
    /\ ecies_pc = "done" /\ change.kind = "tamper"
    /\ InTagField(change.pos, Len(data)) /\ TagMismatch
    /\ result.msg = "Fail to verify data"

\* Reached: a msg with a wrong leading byte has been refused.
WrongHeaderRefused ==
    ecies_pc = "done" /\ ~HeaderOk(data) /\ result.msg = "wrong ecies header"

\* Reached: a signature of 64 bytes has been refused by verify.
ShortSignatureRefused ==
    /\ sig_pc = "done" /\ Len(pubkey) = 64 /\ Len(signature) = 64
    /\ verdict.msg = "Invalid length"

\* Reached: a signature whose recovered key is not the claimed one has been
\* refused.
MismatchRefused ==
    sig_pc = "done" /\ KeyMismatch /\ verdict.kind = "InvalidSignature"

\* C10, in every state: with a supplied scalar super().__init__ is called
\* once at most; the loop is re-entered only without a supplied scalar and
\* after a generated scalar whose encoding is not 32 bytes; construction
\* ends with a valid key pair or an error, and without a supplied scalar
\* with a 32-byte scalar and either a valid key pair or CryptoError.
C10_State ==
    /\ supplied => attempts <= 1
    /\ (keys_pc = "loop" /\ attempts >= 1) =>
          ~supplied /\ Len(self_privkey) # 32
    /\ (keys_pc = "test" /\ Len(self_privkey) = 32) =>
          ~NeedsRetry(self_privkey, pubkey_x, pubkey_y)
    /\ keys_pc = "done" =>
          /\ outcome \in {"ok", "CryptoError", "Exception"}
          /\ outcome = "ok" =>
                /\ Len(self_privkey) = 32
                /\ Len(pubkey_x \o pubkey_y) = 64
                /\ ScalarMult(BN_bin2bn(self_privkey), G)
                      = <<BN_bin2bn(pubkey_x), BN_bin2bn(pubkey_y)>>
          /\ ~supplied =>
                Len(self_privkey) = 32 /\ outcome \in {"ok", "CryptoError"}

\* C10: key-pair construction always terminates and retries only
\* generation (C10_State), under the fairness of SpecKeys.
C10_ConstructionTerminates ==
    /\ []C10_State
    /\ (keys_pc = "loop" ~> keys_pc = "done")

\* C10 witness: a construction without a supplied scalar ended after a
\* retry.
C10_Witness ==
    keys_pc = "done" /\ ~supplied /\ attempts >= 2 /\ outcome = "ok"

====
